---- MODULE Spec2Model ----
(***************************************************************************)
(* Concrete Strength Predictor API (src/backend/main.py).                  *)
(*                                                                         *)
(* The module-level code of main.py loads four artifacts with joblib,      *)
(* computes four evaluation metrics once, creates the FastAPI app and      *)
(* declares three routes.  The routes are plain `def` handlers, which the  *)
(* framework runs concurrently on worker threads.                          *)
(*                                                                         *)
(* Floating-point values are modelled exactly, as one-field records        *)
(*   [fin |-> n]            the number n,                                  *)
(*   [ratio |-> <<n, d>>]   the number n/d,                                *)
(*   [sqrt |-> <<n, d>>]    the square root of |n|/d with the sign of n,   *)
(*   [nan |-> TRUE]         IEEE not-a-number,                             *)
(*   [inf |-> TRUE]         IEEE infinity.                                 *)
(* The artifacts are the objects main.py names: a fitted scikit-learn      *)
(* scaler (an affine per-column transform), a fitted KNeighborsRegressor   *)
(* and the held-out evaluation set.                                        *)
(***************************************************************************)
EXTENDS Integers, Sequences, FiniteSets, TLC

\* Number of requests the server can have in flight at once (worker threads).
NumWorkers == 2

Workers == 1..NumWorkers

(***************************************************************************)
(* Floats                                                                  *)
(***************************************************************************)
Fin(n) == [fin |-> n]

Ratio(n, d) == [ratio |-> <<n, d>>]

SqrtRatio(n, d) == [sqrt |-> <<n, d>>]

NaN == [nan |-> TRUE]

Inf == [inf |-> TRUE]

\* A JSON body value that is not a number (rejected by the Features model).
NotANumber == [str |-> TRUE]

\* Which of the forms above a value has.
Kind(v) == CHOOSE k \in DOMAIN v : TRUE

IsFinite(v) == Kind(v) \in {"fin", "ratio", "sqrt"}

\* Python float(v) of a NumPy float64 scalar: the same IEEE double.
Float(v) == [k \in DOMAIN v |-> v[k]]

Abs(a) == IF a < 0 THEN -a ELSE a

Sign(a) == IF a < 0 THEN -1 ELSE IF a > 0 THEN 1 ELSE 0

RECURSIVE SumSeq(_)
SumSeq(s) == IF s = <<>> THEN 0 ELSE Head(s) + SumSeq(Tail(s))

\* Placeholder for a name that has not been assigned yet.
Unset == [unset |-> TRUE]

\* Outcome of a call: a value or a raised exception.
Ok(v) == [ok |-> TRUE, val |-> v]

Raise(e) == [ok |-> FALSE, exc |-> e]

(***************************************************************************)
(* The artifacts and the library calls main.py makes on them               *)
(***************************************************************************)
NumFeatures == 8

Cols == 1..NumFeatures

Row(c, s, f, w, sp, ca, fa, a) ==
    <<Fin(c), Fin(s), Fin(f), Fin(w), Fin(sp), Fin(ca), Fin(fa), Fin(a)>>

\* scaler.transform(X): input validation accepts NaN and rejects infinity,
\* then X * scale_ + min_ column by column.
ScaleCell(s, j, v) ==
    IF Kind(v) = "fin" THEN Fin(v.fin * s.scale_[j] + s.min_[j]) ELSE v

ScalerTransform(s, X) ==
    IF \E i \in 1..Len(X) : \E j \in 1..Len(X[i]) : Kind(X[i][j]) = "inf"
    THEN Raise("ValueError")
    ELSE IF \E i \in 1..Len(X) : Len(X[i]) # Len(s.scale_)
    THEN Raise("ValueError")
    ELSE Ok([i \in 1..Len(X) |->
               [j \in 1..Len(X[i]) |-> ScaleCell(s, j, X[i][j])]])

\* Squared Euclidean distance between a fitted point and a finite row.
Dist2(a, b) ==
    SumSeq([j \in 1..Len(a) |-> (a[j] - b[j].fin) * (a[j] - b[j].fin)])

\* Index of the nearest fitted point (the first one on a tie).
Nearest(m, row) ==
    LET d == [i \in 1..Len(m.fit_X) |-> Dist2(m.fit_X[i], row)] IN
    CHOOSE i \in 1..Len(m.fit_X) :
        \A o \in 1..Len(m.fit_X) : d[i] < d[o] \/ (d[i] = d[o] /\ i <= o)

\* knn_model.predict(X) of a regressor fitted with n_neighbors = 1: input
\* validation rejects an empty matrix, NaN and infinity, then each row gets the
\* target of its nearest fitted point.
KnnPredict(m, X) ==
    IF Len(X) = 0
    THEN Raise("ValueError")
    ELSE IF \E i \in 1..Len(X) : \E j \in 1..Len(X[i]) : ~IsFinite(X[i][j])
    THEN Raise("ValueError")
    ELSE IF \E i \in 1..Len(X) : Len(X[i]) # NumFeatures
    THEN Raise("ValueError")
    ELSE Ok([i \in 1..Len(X) |-> Fin(m.fit_y[Nearest(m, X[i])])])

\* Sums over the evaluation targets y and the predictions p (both finite).
Diffs(y, p) == [i \in 1..Len(y) |-> y[i] - p[i].fin]

SumAbsErr(y, p) == SumSeq([i \in 1..Len(y) |-> Abs(Diffs(y, p)[i])])

SumSqErr(y, p) == SumSeq([i \in 1..Len(y) |-> Diffs(y, p)[i] * Diffs(y, p)[i]])

\* n * sum((a - mean(a))^2) = n * sum(a^2) - sum(a)^2
NVar(a) ==
    Len(a) * SumSeq([i \in 1..Len(a) |-> a[i] * a[i]]) - SumSeq(a) * SumSeq(a)

\* n * sum((a - mean(a)) * (b - mean(b)))
NCov(a, b) ==
    Len(a) * SumSeq([i \in 1..Len(a) |-> a[i] * b[i]]) - SumSeq(a) * SumSeq(b)

Nums(p) == [i \in 1..Len(p) |-> p[i].fin]

\* sklearn.metrics.mean_absolute_error(y, p)
mean_absolute_error(y, p) ==
    IF Len(y) # Len(p) \/ Len(y) = 0
    THEN Raise("ValueError")
    ELSE Ok(Ratio(SumAbsErr(y, p), Len(y)))

\* sklearn.metrics.mean_squared_error(y, p)
mean_squared_error(y, p) ==
    IF Len(y) # Len(p) \/ Len(y) = 0
    THEN Raise("ValueError")
    ELSE Ok(Ratio(SumSqErr(y, p), Len(y)))

\* np.sqrt of a finite non-negative ratio
Sqrt(v) == SqrtRatio(v.ratio[1], v.ratio[2])

\* sklearn.metrics.r2_score(y, p): undefined (NaN, with a warning only) for fewer
\* than two samples; for constant targets 1.0 on a perfect fit and 0.0 otherwise.
r2_score(y, p) ==
    IF Len(y) # Len(p) \/ Len(y) = 0
    THEN Raise("ValueError")
    ELSE IF Len(y) < 2
    THEN Ok(NaN)
    ELSE IF NVar(y) = 0
    THEN Ok(IF SumSqErr(y, p) = 0 THEN Fin(1) ELSE Fin(0))
    ELSE Ok(Ratio(NVar(y) - Len(y) * SumSqErr(y, p), NVar(y)))

\* np.corrcoef(y, p)[0, 1]: covariance over the product of the standard
\* deviations; a zero variance gives 0/0 = NaN with a RuntimeWarning, no exception.
corrcoef01(y, p) ==
    IF Len(y) # Len(p)
    THEN Raise("ValueError")
    ELSE IF NVar(y) * NVar(Nums(p)) = 0
    THEN Ok(NaN)
    ELSE Ok(SqrtRatio(Sign(NCov(y, Nums(p))) * NCov(y, Nums(p)) * NCov(y, Nums(p)),
                      NVar(y) * NVar(Nums(p))))

(***************************************************************************)
(* What the four pickle files may hold, and what a request may carry        *)
(***************************************************************************)
ScalerArtifacts ==
    { [scale_ |-> [j \in Cols |-> 2], min_ |-> [j \in Cols |-> -1]] }

KnnArtifacts ==
    { [fit_X |-> << <<-1, -1, -1, -1, -1, -1, -1, -1>>,
                    <<1, -1, -1, -1, -1, -1, -1, -1>>,
                    <<-1, 1, -1, -1, -1, -1, -1, -1>>,
                    <<1, 3, 5, 7, 9, 11, 13, 15>>,
                    <<0, 0, 0, 0, 0, 0, 0, 0>>,
                    <<0, 3, 4, 5, 6, 7, 8, 9>> >>,
       fit_y |-> <<5, 40, 20, 60, 12, 33>>] }

\* X_test.pkl: an empty matrix, a single row, three rows.
XTestArtifacts ==
    { <<>>,
      << Row(1, -1, -1, -1, -1, -1, -1, -1) >>,
      << Row(-1, -1, -1, -1, -1, -1, -1, 0),
         Row(1, -1, -1, -1, -1, -1, -1, -1),
         Row(1, 3, 5, 7, 9, 11, 13, 14) >> }

\* y_test.pkl: one target, three targets.
YTestArtifacts == { <<38>>, <<7, 40, 55>> }

\* Query strings: ?model=<text>, or no model parameter at all.
Selectors == {"KNN", "knn", " KNN", ""}

QueryParams ==
    {[given |-> FALSE, text |-> ""]} \cup {[given |-> TRUE, text |-> t] : t \in Selectors}

Body(c, s, f, w, sp, ca, fa, a) ==
    [cement |-> c, slag |-> s, flyash |-> f, water |-> w, superplasticizer |-> sp,
     coarseagg |-> ca, fineagg |-> fa, age |-> a]

Z == Fin(0)

\* JSON bodies with all eight keys present.
RequestBodies ==
    { Body(Z, Z, Z, Z, Z, Z, Z, Z),
      Body(Fin(1), Z, Z, Z, Z, Z, Z, Z),
      Body(Fin(1), Fin(2), Fin(3), Fin(4), Fin(5), Fin(6), Fin(7), Fin(8)),
      Body(Inf, Z, Z, Z, Z, Z, Z, Z),
      Body(Z, Z, Z, Z, Z, Z, Z, NaN),
      Body(NotANumber, Z, Z, Z, Z, Z, Z, Z) }

(***************************************************************************)
(* State                                                                   *)
(***************************************************************************)
VARIABLES
    phase,          \* position of the module-level code of main.py
    crash,          \* "none", or the statement whose exception ended the process
    knn_model, scaler, X_test_scaled, y_test,
    y_pred_test, mae_test, rmse_test, r2_test, corr_test,
    metrics_runs,   \* how many times the statements of lines 25-29 were started
    bound,          \* the module-level names that have been assigned
    pc,             \* per worker thread: position in the handler it runs
    req,            \* per worker thread: the request it is handling
    x_scaled,       \* per worker thread: predict's local x_scaled
    out             \* per worker thread: what the handler returned or raised

artifacts == <<knn_model, scaler, X_test_scaled, y_test>>

snapshot == <<y_pred_test, mae_test, rmse_test, r2_test, corr_test>>

startup == <<phase, crash, metrics_runs>>

globals == <<artifacts, snapshot, bound>>

threads == <<pc, req, x_scaled, out>>

vars == <<phase, crash, knn_model, scaler, X_test_scaled, y_test,
          y_pred_test, mae_test, rmse_test, r2_test, corr_test,
          metrics_runs, bound, pc, req, x_scaled, out>>

Init ==
    /\ phase = "load_knn_model"
    /\ crash = "none"
    /\ knn_model = Unset
    /\ scaler = Unset
    /\ X_test_scaled = Unset
    /\ y_test = Unset
    /\ y_pred_test = Unset
    /\ mae_test = Unset
    /\ rmse_test = Unset
    /\ r2_test = Unset
    /\ corr_test = Unset
    /\ metrics_runs = 0
    /\ bound = {}
    /\ pc = [w \in Workers |-> "idle"]
    /\ req = [w \in Workers |-> Unset]
    /\ x_scaled = [w \in Workers |-> Unset]
    /\ out = [w \in Workers |-> Unset]

(***************************************************************************)
(* Module-level code, lines 19-51: runs once, top to bottom, when the       *)
(* server imports main.py.  An uncaught exception ends the import and the   *)
(* process with it.                                                        *)
(***************************************************************************)
\* An uncaught exception at module level: the statement at `at` raised.
Die(at) ==
    /\ phase' = "crashed"
    /\ crash' = at

\* joblib.load(file): the object pickled in the file, or an exception when the
\* file is missing, unreadable or does not unpickle.
JoblibLoad(contents) == {Raise("load")} \cup {Ok(a) : a \in contents}

\* line 19
LoadKnnModel ==
    /\ phase = "load_knn_model"
    /\ \E r \in JoblibLoad(KnnArtifacts) :
        IF r.ok
        THEN /\ knn_model' = r.val
             /\ bound' = bound \cup {"knn_model"}
             /\ phase' = "load_scaler"
             /\ UNCHANGED crash
        ELSE /\ Die("knn_model.pkl")
             /\ UNCHANGED <<knn_model, bound>>
    /\ UNCHANGED <<scaler, X_test_scaled, y_test, snapshot, metrics_runs, threads>>

\* Variant of LoadScaler that swallows the exception and goes on without a scaler.
LoadScaler_Swallow ==
    /\ phase = "load_scaler"
    /\ \E r \in JoblibLoad(ScalerArtifacts) :
        /\ scaler' = IF r.ok THEN r.val ELSE Unset
        /\ bound' = IF r.ok THEN bound \cup {"scaler"} ELSE bound
        /\ phase' = "load_X_test"
        /\ UNCHANGED crash
    /\ UNCHANGED <<knn_model, X_test_scaled, y_test, snapshot, metrics_runs, threads>>

\* line 20
LoadScaler ==
    /\ phase = "load_scaler"
    /\ \E r \in JoblibLoad(ScalerArtifacts) :
        IF r.ok
        THEN /\ scaler' = r.val
             /\ bound' = bound \cup {"scaler"}
             /\ phase' = "load_X_test"
             /\ UNCHANGED crash
        ELSE /\ Die("scaler.pkl")
             /\ UNCHANGED <<scaler, bound>>
    /\ UNCHANGED <<knn_model, X_test_scaled, y_test, snapshot, metrics_runs, threads>>

\* line 21
LoadXTest ==
    /\ phase = "load_X_test"
    /\ \E r \in JoblibLoad(XTestArtifacts) :
        IF r.ok
        THEN /\ X_test_scaled' = r.val
             /\ bound' = bound \cup {"X_test_scaled"}
             /\ phase' = "load_y_test"
             /\ UNCHANGED crash
        ELSE /\ Die("X_test.pkl")
             /\ UNCHANGED <<X_test_scaled, bound>>
    /\ UNCHANGED <<knn_model, scaler, y_test, snapshot, metrics_runs, threads>>

\* line 22
LoadYTest ==
    /\ phase = "load_y_test"
    /\ \E r \in JoblibLoad(YTestArtifacts) :
        IF r.ok
        THEN /\ y_test' = r.val
             /\ bound' = bound \cup {"y_test"}
             /\ phase' = "predict_test"
             /\ UNCHANGED crash
        ELSE /\ Die("y_test.pkl")
             /\ UNCHANGED <<y_test, bound>>
    /\ UNCHANGED <<knn_model, scaler, X_test_scaled, snapshot, metrics_runs, threads>>

\* line 25
PredictTest ==
    /\ phase = "predict_test"
    /\ metrics_runs' = metrics_runs + 1
    /\ LET r == KnnPredict(knn_model, X_test_scaled) IN
        IF r.ok
        THEN /\ y_pred_test' = r.val
             /\ bound' = bound \cup {"y_pred_test"}
             /\ phase' = "mae"
             /\ UNCHANGED crash
        ELSE /\ Die("line 25")
             /\ UNCHANGED <<y_pred_test, bound>>
    /\ UNCHANGED <<artifacts, mae_test, rmse_test, r2_test, corr_test, threads>>

\* line 26
ComputeMae ==
    /\ phase = "mae"
    /\ LET r == mean_absolute_error(y_test, y_pred_test) IN
        IF r.ok
        THEN /\ mae_test' = r.val
             /\ bound' = bound \cup {"mae_test"}
             /\ phase' = "rmse"
             /\ UNCHANGED crash
        ELSE /\ Die("line 26")
             /\ UNCHANGED <<mae_test, bound>>
    /\ UNCHANGED <<artifacts, y_pred_test, rmse_test, r2_test, corr_test,
                   metrics_runs, threads>>

\* line 27
ComputeRmse ==
    /\ phase = "rmse"
    /\ LET r == mean_squared_error(y_test, y_pred_test) IN
        IF r.ok
        THEN /\ rmse_test' = Sqrt(r.val)
             /\ bound' = bound \cup {"rmse_test"}
             /\ phase' = "r2"
             /\ UNCHANGED crash
        ELSE /\ Die("line 27")
             /\ UNCHANGED <<rmse_test, bound>>
    /\ UNCHANGED <<artifacts, y_pred_test, mae_test, r2_test, corr_test,
                   metrics_runs, threads>>

\* line 28
ComputeR2 ==
    /\ phase = "r2"
    /\ LET r == r2_score(y_test, y_pred_test) IN
        IF r.ok
        THEN /\ r2_test' = r.val
             /\ bound' = bound \cup {"r2_test"}
             /\ phase' = "corr"
             /\ UNCHANGED crash
        ELSE /\ Die("line 28")
             /\ UNCHANGED <<r2_test, bound>>
    /\ UNCHANGED <<artifacts, y_pred_test, mae_test, rmse_test, corr_test,
                   metrics_runs, threads>>

\* line 29
ComputeCorr ==
    /\ phase = "corr"
    /\ LET r == corrcoef01(y_test, y_pred_test) IN
        IF r.ok
        THEN /\ corr_test' = r.val
             /\ bound' = bound \cup {"corr_test"}
             /\ phase' = "app"
             /\ UNCHANGED crash
        ELSE /\ Die("line 29")
             /\ UNCHANGED <<corr_test, bound>>
    /\ UNCHANGED <<artifacts, y_pred_test, mae_test, rmse_test, r2_test,
                   metrics_runs, threads>>

\* lines 34-105: the app object, its CORS middleware and the three routes are
\* created; the import ends and the server starts to accept requests.
CreateApp ==
    /\ phase = "app"
    /\ phase' = "serving"
    /\ UNCHANGED <<crash, artifacts, snapshot, metrics_runs, bound, threads>>

(***************************************************************************)
(* Request handling, lines 56-105                                          *)
(***************************************************************************)
FieldNames ==
    {"cement", "slag", "flyash", "water", "superplasticizer", "coarseagg",
     "fineagg", "age"}

\* class Features(BaseModel), lines 56-64: eight fields typed float, with no
\* bounds and no finiteness constraint; NaN and infinity are floats.
Features(body) ==
    IF \A f \in FieldNames : Kind(body[f]) \in {"fin", "nan", "inf"}
    THEN Ok(body)
    ELSE Raise("RequestValidationError")

\* model: str = "KNN" (line 70) and Query("KNN") (line 88): the text given, or
\* the default when the parameter is absent.
ModelParam(q) == IF q.given THEN q.text ELSE "KNN"

\* Variant of AssembleRow with cement and slag in each other's column.
AssembleRow_Swapped(features) ==
    << << features.slag, features.cement, features.flyash, features.water,
          features.superplasticizer, features.coarseagg, features.fineagg,
          features.age >> >>

\* lines 71-73: np.array([[...]]), one row of eight columns.
AssembleRow(features) ==
    << << features.cement, features.slag, features.flyash, features.water,
          features.superplasticizer, features.coarseagg, features.fineagg,
          features.age >> >>

\* f"Model {model} not implemented yet." (line 80), as its literal and
\* interpolated parts.
PredictErrorText(model) == <<"Model ", model, " not implemented yet.">>

\* Variant of MetricsErrorText that reuses the wording of /predict.
MetricsErrorText_AsPredict(model) == <<"Model ", model, " not implemented yet.">>

\* f"Metrics for model {model} not implemented yet." (line 98)
MetricsErrorText(model) == <<"Metrics for model ", model, " not implemented yet.">>

Return(body) == [kind |-> "return", body |-> body]

Raised(e) == [kind |-> "raise", exc |-> e]

\* The framework's answer to a body that fails the Features model; the handler
\* is not called.
Rejected == [kind |-> "rejected", status |-> 422]

\* A scaler refitted on the single row x (what scaler.fit_transform(x) leaves
\* behind): every column's range is zero, so scale_ = 1 and min_ = -x.
Refit(x) ==
    [scale_ |-> [j \in Cols |-> 1],
     min_ |-> [j \in Cols |-> IF IsFinite(x[1][j]) THEN -x[1][j].fin ELSE 0]]

\* Variant of PredictScale that calls scaler.fit_transform(x) at line 75.
PredictScale_FitTransform(w) ==
    /\ phase = "serving"
    /\ pc[w] = "idle"
    /\ \E body \in RequestBodies, q \in QueryParams :
        IF Features(body).ok
        THEN LET features == Features(body).val
                 x == << << features.cement, features.slag, features.flyash,
                            features.water, features.superplasticizer,
                            features.coarseagg, features.fineagg, features.age >> >>
                 r == ScalerTransform(Refit(x), x)
             IN /\ req' = [req EXCEPT ![w] =
                             [route |-> "predict", features |-> features,
                              model |-> ModelParam(q)]]
                /\ IF r.ok
                   THEN /\ x_scaled' = [x_scaled EXCEPT ![w] = r.val]
                        /\ scaler' = Refit(x)
                        /\ pc' = [pc EXCEPT ![w] = "predict_77"]
                        /\ UNCHANGED out
                   ELSE /\ out' = [out EXCEPT ![w] = Raised(r.exc)]
                        /\ pc' = [pc EXCEPT ![w] = "done"]
                        /\ UNCHANGED <<x_scaled, scaler>>
        ELSE /\ req' = [req EXCEPT ![w] = [route |-> "predict", body |-> body]]
             /\ out' = [out EXCEPT ![w] = Rejected]
             /\ pc' = [pc EXCEPT ![w] = "done"]
             /\ UNCHANGED <<x_scaled, scaler>>
    /\ UNCHANGED <<startup, knn_model, X_test_scaled, y_test, snapshot, bound>>

\* POST /predict arrives on an idle worker: the body is validated, the handler's
\* parameters are bound (lines 69-70), then x is assembled and scaled (lines
\* 71-75).  A body that fails validation never reaches the handler.
PredictScale(w) ==
    /\ phase = "serving"
    /\ pc[w] = "idle"
    /\ \E body \in RequestBodies, q \in QueryParams :
        IF Features(body).ok
        THEN LET features == Features(body).val
                 r == ScalerTransform(scaler, AssembleRow(features))
             IN /\ req' = [req EXCEPT ![w] =
                             [route |-> "predict", features |-> features,
                              model |-> ModelParam(q)]]
                /\ IF r.ok
                   THEN /\ x_scaled' = [x_scaled EXCEPT ![w] = r.val]
                        /\ pc' = [pc EXCEPT ![w] = "predict_77"]
                        /\ UNCHANGED out
                   ELSE /\ out' = [out EXCEPT ![w] = Raised(r.exc)]
                        /\ pc' = [pc EXCEPT ![w] = "done"]
                        /\ UNCHANGED x_scaled
        ELSE /\ req' = [req EXCEPT ![w] = [route |-> "predict", body |-> body]]
             /\ out' = [out EXCEPT ![w] = Rejected]
             /\ pc' = [pc EXCEPT ![w] = "done"]
             /\ UNCHANGED x_scaled
    /\ UNCHANGED <<startup, globals>>

\* lines 77-82: the selector is compared and the handler returns.
PredictBranch(w) ==
    /\ pc[w] = "predict_77"
    /\ IF req[w].model = "KNN"
       THEN LET r == KnnPredict(knn_model, x_scaled[w]) IN
            IF r.ok
            THEN out' = [out EXCEPT ![w] =
                           Return([predicted_strength |-> Float(r.val[1])])]
            ELSE out' = [out EXCEPT ![w] = Raised(r.exc)]
       ELSE out' = [out EXCEPT ![w] =
                      Return([error |-> PredictErrorText(req[w].model)])]
    /\ pc' = [pc EXCEPT ![w] = "done"]
    /\ UNCHANGED <<startup, globals, req, x_scaled>>

\* Variant of ModelMetrics that runs lines 25-29 again on every request.
ModelMetrics_Recompute(w) ==
    /\ phase = "serving"
    /\ pc[w] = "idle"
    /\ metrics_runs' = metrics_runs + 1
    /\ y_pred_test' = KnnPredict(knn_model, X_test_scaled).val
    /\ mae_test' = mean_absolute_error(y_test, y_pred_test').val
    /\ rmse_test' = Sqrt(mean_squared_error(y_test, y_pred_test').val)
    /\ r2_test' = r2_score(y_test, y_pred_test').val
    /\ corr_test' = corrcoef01(y_test, y_pred_test').val
    /\ \E q \in QueryParams :
        /\ req' = [req EXCEPT ![w] = [route |-> "model-metrics", model |-> ModelParam(q)]]
        /\ IF ModelParam(q) = "KNN"
           THEN out' = [out EXCEPT ![w] =
                          Return([mae |-> Float(mae_test'),
                                  rmse |-> Float(rmse_test'),
                                  r2 |-> Float(r2_test'),
                                  correlation |-> Float(corr_test'),
                                  description |-> "KNN predicts the output based on nearest neighbors in the training data."])]
           ELSE out' = [out EXCEPT ![w] =
                          Return([error |-> MetricsErrorText(ModelParam(q))])]
    /\ pc' = [pc EXCEPT ![w] = "done"]
    /\ UNCHANGED <<phase, crash, artifacts, bound, x_scaled>>

\* GET /model-metrics, lines 87-98.
ModelMetrics(w) ==
    /\ phase = "serving"
    /\ pc[w] = "idle"
    /\ \E q \in QueryParams :
        /\ req' = [req EXCEPT ![w] = [route |-> "model-metrics", model |-> ModelParam(q)]]
        /\ IF ModelParam(q) = "KNN"
           THEN out' = [out EXCEPT ![w] =
                          Return([mae |-> Float(mae_test),
                                  rmse |-> Float(rmse_test),
                                  r2 |-> Float(r2_test),
                                  correlation |-> Float(corr_test),
                                  description |-> "KNN predicts the output based on nearest neighbors in the training data."])]
           ELSE out' = [out EXCEPT ![w] =
                          Return([error |-> MetricsErrorText(ModelParam(q))])]
    /\ pc' = [pc EXCEPT ![w] = "done"]
    /\ UNCHANGED <<startup, globals, x_scaled>>

\* Variant of Root that answers as soon as the process exists.
Root_BeforeStartup(w) ==
    /\ phase # "crashed"
    /\ pc[w] = "idle"
    /\ req' = [req EXCEPT ![w] = [route |-> "root"]]
    /\ out' = [out EXCEPT ![w] =
                 Return([message |-> "Welcome to Concrete Strength Prediction API"])]
    /\ pc' = [pc EXCEPT ![w] = "done"]
    /\ UNCHANGED <<startup, globals, x_scaled>>

\* GET /, lines 103-105.
Root(w) ==
    /\ phase = "serving"
    /\ pc[w] = "idle"
    /\ req' = [req EXCEPT ![w] = [route |-> "root"]]
    /\ out' = [out EXCEPT ![w] =
                 Return([message |-> "Welcome to Concrete Strength Prediction API"])]
    /\ pc' = [pc EXCEPT ![w] = "done"]
    /\ UNCHANGED <<startup, globals, x_scaled>>

\* The handler's frame is gone and the worker is free for the next request.
Finish(w) ==
    /\ pc[w] = "done"
    /\ pc' = [pc EXCEPT ![w] = "idle"]
    /\ req' = [req EXCEPT ![w] = Unset]
    /\ x_scaled' = [x_scaled EXCEPT ![w] = Unset]
    /\ out' = [out EXCEPT ![w] = Unset]
    /\ UNCHANGED <<startup, globals>>

Next ==
    \/ LoadKnnModel
    \/ LoadScaler
    \/ LoadXTest
    \/ LoadYTest
    \/ PredictTest
    \/ ComputeMae
    \/ ComputeRmse
    \/ ComputeR2
    \/ ComputeCorr
    \/ CreateApp
    \/ \E w \in Workers : PredictScale(w)
    \/ \E w \in Workers : PredictBranch(w)
    \/ \E w \in Workers : ModelMetrics(w)
    \/ \E w \in Workers : Root(w)
    \/ \E w \in Workers : Finish(w)

Spec == Init /\ [][Next]_vars

(***************************************************************************)
(* Properties                                                              *)
(***************************************************************************)
\* Worker w holds the outcome of a handler call on the given route (the request
\* passed validation and the handler ran to a return or an exception).
Handled(w, route) ==
    /\ pc[w] = "done"
    /\ req[w].route = route
    /\ out[w].kind # "rejected"

ArtifactsLoaded == {"knn_model", "scaler", "X_test_scaled", "y_test"} \subseteq bound

SnapshotComputed ==
    {"y_pred_test", "mae_test", "rmse_test", "r2_test", "corr_test"} \subseteq bound

HasInf(features) == \E f \in FieldNames : Kind(features[f]) = "inf"

StartupMetrics ==
    LET p == KnnPredict(knn_model, X_test_scaled).val IN
    [mae |-> mean_absolute_error(y_test, p).val,
     rmse |-> SqrtRatio(SumSqErr(y_test, p), Len(y_test)),
     r2 |-> r2_score(y_test, p).val,
     correlation |-> corrcoef01(y_test, p).val]

\* C2: every /model-metrics answer for selector "KNN" (given or defaulted) carries
\* the four values computed at startup from the loaded model and evaluation set;
\* lines 25-29 have run exactly once, and any two such answers are identical.
C2_MetricsFromStartup ==
    /\ \A w \in Workers :
        (Handled(w, "model-metrics") /\ req[w].model = "KNN")
        => /\ metrics_runs = 1
           /\ out[w].kind = "return"
           /\ out[w].body.mae = StartupMetrics.mae
           /\ out[w].body.rmse = StartupMetrics.rmse
           /\ out[w].body.r2 = StartupMetrics.r2
           /\ out[w].body.correlation = StartupMetrics.correlation
    /\ \A w1 \in Workers, w2 \in Workers :
        (/\ Handled(w1, "model-metrics") /\ req[w1].model = "KNN"
         /\ Handled(w2, "model-metrics") /\ req[w2].model = "KNN")
        => out[w1] = out[w2]

C2_Witness ==
    \E w1 \in Workers, w2 \in Workers :
        /\ w1 # w2
        /\ Handled(w1, "model-metrics") /\ req[w1].model = "KNN"
        /\ Handled(w2, "model-metrics") /\ req[w2].model = "KNN"
        /\ IsFinite(out[w1].body.correlation)

\* C3: once the server is serving, no step changes the model, the scaler, the
\* evaluation set or the metrics; no step of one request changes another
\* request's locals or outcome; and two /predict calls with the same features
\* and selector have the same outcome.
C3_HandlersReadOnly ==
    [][ /\ phase = "serving" => UNCHANGED <<artifacts, snapshot, bound, metrics_runs>>
        /\ \A w \in Workers :
            /\ (pc[w] = "done" /\ pc'[w] = "done")
                => (out'[w] = out[w] /\ req'[w] = req[w])
            /\ (pc[w] = "predict_77" /\ pc'[w] = "predict_77")
                => (x_scaled'[w] = x_scaled[w] /\ req'[w] = req[w])
        /\ \A w1 \in Workers, w2 \in Workers :
            (/\ pc'[w1] = "done" /\ req'[w1].route = "predict"
             /\ out'[w1].kind # "rejected"
             /\ pc'[w2] = "done" /\ req'[w2].route = "predict"
             /\ out'[w2].kind # "rejected"
             /\ req'[w1] = req'[w2])
            => out'[w1] = out'[w2] ]_vars

C3_Witness ==
    \E w1 \in Workers, w2 \in Workers :
        /\ pc[w1] = "predict_77"
        /\ Handled(w2, "predict")
        /\ out[w2].kind = "return"
        /\ req[w1].features # req[w2].features
        /\ req[w1].model # req[w2].model

\* C4: a request is being handled, or has been, only when the module-level code
\* has finished: all four artifacts are loaded, the five names of lines 25-29
\* are bound and those lines have run exactly once; the metrics are computed
\* only after all four artifacts are loaded.
C4_StartupBarrier ==
    /\ metrics_runs <= 1
    /\ (metrics_runs = 1 \/ "y_pred_test" \in bound) => ArtifactsLoaded
    /\ \A w \in Workers :
        (pc[w] # "idle" \/ out[w] # Unset \/ req[w] # Unset)
        => /\ phase = "serving"
           /\ ArtifactsLoaded
           /\ SnapshotComputed
           /\ metrics_runs = 1

C4_Witness ==
    \E w \in Workers :
        /\ Handled(w, "root")
        /\ phase = "serving"
        /\ metrics_runs = 1

\* C5: when a joblib.load raised, the process is dead and no worker handles or
\* has handled a request; when the server serves, all four artifacts are loaded.
C5_NoDegradedMode ==
    /\ crash # "none"
        => /\ phase = "crashed"
           /\ \A w \in Workers : pc[w] = "idle" /\ out[w] = Unset
    /\ phase = "serving" => (crash = "none" /\ ArtifactsLoaded)
    /\ phase \notin {"load_knn_model", "crashed"} => "knn_model" \in bound
    /\ phase \notin {"load_knn_model", "load_scaler", "crashed"} => "scaler" \in bound

C5_Witness ==
    /\ crash = "X_test.pkl"
    /\ phase = "crashed"
    /\ bound = {"knn_model", "scaler"}

\* C6 (as stated): every validated /predict call with selector "KNN" returns
\* {"predicted_strength": v} with v finite.
C6_FinitePrediction ==
    \A w \in Workers :
        (Handled(w, "predict") /\ req[w].model = "KNN")
        => /\ out[w].kind = "return"
           /\ DOMAIN out[w].body = {"predicted_strength"}
           /\ IsFinite(out[w].body.predicted_strength)

\* C7 (as stated): every validated /predict call with a selector other than
\* "KNN" returns a body whose only field is error; nothing is raised.
C7_StubNeverRaises ==
    \A w \in Workers :
        (Handled(w, "predict") /\ req[w].model # "KNN")
        => /\ out[w].kind = "return"
           /\ DOMAIN out[w].body = {"error"}

\* C8 (as stated): an undefined statistic never survives startup, so whenever
\* the server serves, /model-metrics with selector "KNN" returns four finite
\* numbers and a non-empty description.
C8_MetricsFiniteWhenServing ==
    \A w \in Workers :
        (Handled(w, "model-metrics") /\ req[w].model = "KNN")
        => /\ out[w].kind = "return"
           /\ IsFinite(out[w].body.mae)
           /\ IsFinite(out[w].body.rmse)
           /\ IsFinite(out[w].body.r2)
           /\ IsFinite(out[w].body.correlation)
           /\ out[w].body.description # ""

\* What predict must produce for selector "KNN": knn_model.predict applied to
\* scaler.transform of the one row cement, slag, flyash, water,
\* superplasticizer, coarseagg, fineagg, age; an exception of either call
\* leaves the handler.
ExpectedPrediction(f) ==
    LET row == <<f.cement, f.slag, f.flyash, f.water, f.superplasticizer,
                 f.coarseagg, f.fineagg, f.age>>
        t == ScalerTransform(scaler, <<row>>)
    IN  IF ~t.ok
        THEN Raised(t.exc)
        ELSE LET y == KnnPredict(knn_model, t.val) IN
             IF y.ok THEN Return([predicted_strength |-> y.val[1]]) ELSE Raised(y.exc)

\* C9: a /predict call with selector "KNN" yields
\* knn_model.predict(scaler.transform(row))[0] for the row built from the
\* request's fields in the order cement, slag, flyash, water, superplasticizer,
\* coarseagg, fineagg, age; the local x_scaled is that row scaled once.
C9_PredictionIsModelOfScaledRow ==
    \A w \in Workers :
        /\ (Handled(w, "predict") /\ req[w].model = "KNN")
            => out[w] = ExpectedPrediction(req[w].features)
        /\ pc[w] = "predict_77"
            => x_scaled[w] =
                 ScalerTransform(scaler,
                     << << req[w].features.cement, req[w].features.slag,
                           req[w].features.flyash, req[w].features.water,
                           req[w].features.superplasticizer,
                           req[w].features.coarseagg, req[w].features.fineagg,
                           req[w].features.age >> >>).val

C9_Witness ==
    \E w \in Workers :
        /\ Handled(w, "predict")
        /\ req[w].model = "KNN"
        /\ req[w].features = Body(Fin(1), Z, Z, Z, Z, Z, Z, Z)
        /\ out[w] = Return([predicted_strength |-> Fin(40)])

\* C10 (as stated): every handled /predict or /model-metrics request returns a
\* body of exactly one of the two shapes: the success fields when the selector
\* is "KNN" (given or defaulted), a lone error field for every other string.
C10_ExactlyOneShape ==
    \A w \in Workers :
        /\ Handled(w, "predict")
            => /\ out[w].kind = "return"
               /\ DOMAIN out[w].body =
                    IF req[w].model = "KNN" THEN {"predicted_strength"} ELSE {"error"}
        /\ Handled(w, "model-metrics")
            => /\ out[w].kind = "return"
               /\ DOMAIN out[w].body =
                    IF req[w].model = "KNN"
                    THEN {"mae", "rmse", "r2", "correlation", "description"}
                    ELSE {"error"}

====
